---- MODULE Spec2Model ----
(***************************************************************************)
(* Model of src/build.rs: the module-dependency-graph builder.             *)
(*                                                                         *)
(* parse_and_get_dependencies is modelled as a state machine:              *)
(*   discovery  (build.rs 205-274)  one step per package visited and one   *)
(*              step per source file inserted, in any hash-map order;      *)
(*   scatter    (build.rs 276-305)  one task per registry entry, run by    *)
(*              parallel workers in any interleaving;                      *)
(*   gather     (build.rs 305-312)  a sequential fold of the collected     *)
(*              triples, in the (arbitrary) order of the collected vector. *)
(* Strings that the code takes apart (package names, artifact lines) are   *)
(* sequences of one-character strings; strings that it only compares       *)
(* (module names) are TLA+ strings.                                        *)
(***************************************************************************)
EXTENDS Naturals, Sequences, FiniteSets, TLC

VARIABLES
    packages,    \* the input: package name -> Package
    files,       \* the registry: module name -> SourceFile        (build.rs 203)
    pc,          \* "discover" | "scatter" | "gather" | "done" | "aborted"
    todoPkgs,    \* packages the outer for_each has not visited yet (build.rs 205)
    todoFiles,   \* source files of the current package not inserted yet (build.rs 240)
    task,        \* scatter: module name -> "idle" | "running" | "done"
    artifact,    \* what each unit's artifact file held when it was read
    results,     \* the triples collected by the scatter phase    (build.rs 305)
    pending,     \* the triples the fold has not consumed yet      (build.rs 306)
    spawned,     \* units whose front-end process has been started (build.rs 112)
    writes,      \* per entry: number of assignments of a set artifact path
    discovered,  \* the registry as discovery left it
    frontend,    \* how each unit's front-end process went         (build.rs 112-119)
    printed,     \* what has been written to standard output
    call,        \* the invocation of the compile adapter at hand  (build.rs 317, 341)
    cmd          \* the compiler processes the adapter has started (build.rs 332, 421)

vars == <<packages, files, pc, todoPkgs, todoFiles, task, artifact, results,
          pending, spawned, writes, discovered, frontend, printed, call, cmd>>

\* the state of the compile adapter
adapterVars == <<call, cmd>>

----------------------------------------------------------------------------
(* Bounds of the model *)

\* number of source files declared in the whole project
MaxFiles == 2

\* number of lines of an artifact file
MaxLines == 4

----------------------------------------------------------------------------
(* Option<T> *)

None == <<>>

Some(x) == <<x>>

IsSome(o) == o # <<>>

Unwrap(o) == o[1]

----------------------------------------------------------------------------
(* Character strings *)

\* the string spelled by a sequence of one-character strings
RECURSIVE Cat(_)
Cat(s) == IF s = <<>> THEN "" ELSE Head(s) \o Cat(Tail(s))

IsWhite(c) == c \in {" ", "\t"}

RECURSIVE TrimStart(_)
TrimStart(s) ==
    IF s # <<>> /\ IsWhite(Head(s)) THEN TrimStart(Tail(s)) ELSE s

RECURSIVE TrimEnd(_)
TrimEnd(s) ==
    IF s # <<>> /\ IsWhite(s[Len(s)]) THEN TrimEnd(SubSeq(s, 1, Len(s) - 1)) ELSE s

Range(s) == {s[i] : i \in 1..Len(s)}

\* str::trim
Trim(s) == TrimEnd(TrimStart(s))

\* str::replace of the one-character pattern c by the string r
RECURSIVE Replace(_, _, _)
Replace(s, c, r) ==
    IF s = <<>> THEN <<>>
    ELSE (IF Head(s) = c THEN r ELSE <<Head(s)>>) \o Replace(Tail(s), c, r)

Lower == <<"a", "b", "f", "o">>

Upper == <<"A", "B", "F", "O">>

IsLower(c) == \E i \in 1..Len(Lower) : Lower[i] = c

ToUpper(c) ==
    IF IsLower(c) THEN Upper[CHOOSE i \in 1..Len(Lower) : Lower[i] = c] ELSE c

IsDelim(c) == c \in {"_", "-", " "}

\* convert_case: Case::Pascal on lower-case words separated by delimiters:
\* every word starts with a capital, the delimiters are dropped
RECURSIVE Pascal(_, _)
Pascal(s, startOfWord) ==
    IF s = <<>> THEN <<>>
    ELSE IF IsDelim(Head(s)) THEN Pascal(Tail(s), TRUE)
    ELSE <<IF startOfWord THEN ToUpper(Head(s)) ELSE Head(s)>>
             \o Pascal(Tail(s), FALSE)

----------------------------------------------------------------------------
(* Helpers of crate::helpers *)

\* the canonical module name of a path: its base name
file_path_to_module_name(path) == path.base

get_basename(path) == path.base

\* the build directory of a package
get_build_path(name) == <<"_build", name>>

----------------------------------------------------------------------------
(* Packages and discovery *)

PRELUDE == "Pervasives"

\* build.rs 169-182
get_namespace(package) ==
    IF package.namespace
    THEN Some(Cat(Pascal(Replace(Replace(package.name, "@", <<>>), "/", <<"_">>), TRUE)))
    ELSE None

\* build.rs 192: the path of the alias artifact
gen_mlmap(package, namespace) ==
    [dir |-> get_build_path(package.name), base |-> namespace, ext |-> "mlmap"]

\* build.rs 208-216
AliasDeps(package) ==
    IF IsSome(package.source_files)
    THEN {file_path_to_module_name(path) : path \in Unwrap(package.source_files)}
    ELSE {}

ImplementationExts == {"res", "ml", "re"}

InterfaceExts == {"resi", "mli", "rei"}

\* KnownExt with the fall-through arm accepting the extension
KnownExtAny(ext) == TRUE

\* build.rs 247-260: the other extensions reach unreachable!()
KnownExt(ext) == ext \in ImplementationExts \cup InterfaceExts

SourceTypeOf(ext) ==
    IF ext \in ImplementationExts THEN "Implementation" ELSE "Interface"

\* AHashMap::insert: a later unit of the same key replaces the earlier one
Insert(map, key, value) ==
    [k \in DOMAIN map \cup {key} |-> IF k = key THEN value ELSE map[k]]

\* build.rs 227-235
MlMapUnit(package, mlmap) ==
    [file_path   |-> mlmap,
     dirty       |-> TRUE,
     source_type |-> "MlMap",
     namespace   |-> None,
     ast_path    |-> Some(mlmap),
     ast_deps    |-> AliasDeps(package),
     package     |-> package.name]

\* build.rs 243-270
SourceUnit(package, file) ==
    [file_path   |-> file,
     dirty       |-> TRUE,
     source_type |-> SourceTypeOf(file.ext),
     namespace   |-> IF package.namespace THEN get_namespace(package) ELSE None,
     ast_path    |-> None,
     ast_deps    |-> {},
     package     |-> package.name]

----------------------------------------------------------------------------
(* Artifact files and the extractor *)

\* a line of an artifact file: text, or bytes that do not decode (io::Error)
Line(text) == [ok |-> TRUE, text |-> text]

BadLine == [ok |-> FALSE, text |-> <<>>]

LineSet ==
    { Line(<<>>),
      Line(<<" ">>),
      Line(<<"A">>),
      Line(<<" ", "O", "B", "\t">>),
      Line(<<"P", "e", "r", "v", "a", "s", "i", "v", "e", "s">>),
      Line(<<"/", "p">>),
      Line(<<" ", "/", "p">>),
      BadLine }

RECURSIVE SeqsUpTo(_, _)
SeqsUpTo(S, n) ==
    IF n = 0 THEN {<<>>}
    ELSE LET shorter == SeqsUpTo(S, n - 1)
         IN  shorter \cup {Append(s, x) : s \in shorter, x \in S}

\* what the artifact file of a unit can hold: no file at all, or lines
Artifacts == {None} \cup {Some(c) : c \in SeqsUpTo(LineSet, MaxLines)}

\* the artifacts the front-end leaves behind in a run of the whole pipeline
FrontEndArtifacts ==
    { None,
      Some(<<Line(<<"a">>), Line(<<"A">>), Line(<<" ", "O", "B", "\t">>),
             Line(<<"/", "p">>)>>) }

\* build.rs 47-54
contains_ascii_characters(str) ==
    \E i \in 1..Len(str) :
        str[i] \in Range(Lower) \cup Range(Upper) \cup {"e", "r", "0", "1"}

\* a run of the front-end that was spawned and has ended: its exit status,
\* its standard error (None when the bytes are not UTF-8) and the artifact
\* file it leaves behind
Run(status, stderr, ast_file) ==
    [status |-> status, stderr |-> stderr, ast_file |-> ast_file]

\* a run that exits with status 0 and writes nothing to standard error
CleanRun(ast_file) == Run(0, Some(<<>>), ast_file)

\* the runs of the front-end in a run of the whole pipeline: a clean run that
\* leaves its artifact, a compile error with diagnostics that leaves none, and
\* a compile error whose diagnostics are not UTF-8
FrontEndRuns ==
    { CleanRun(a) : a \in FrontEndArtifacts \ {None} }
    \cup { Run(1, Some(<<"e", "r", "r">>), None), Run(1, None, None) }

\* what is known of a front-end process: one that ended, one never spawned
Ended(run) == [spawned |-> TRUE, status |-> run.status, stderr |-> run.stderr]

NotSpawned == [spawned |-> FALSE, status |-> 0, stderr |-> None]

\* ScanLines that skips a line starting with '/' and goes on reading
RECURSIVE ScanLinesNoBreak(_)
ScanLinesNoBreak(lines) ==
    IF lines = <<>> THEN <<>>
    ELSE LET line == Head(lines) IN
         IF ~line.ok THEN ScanLinesNoBreak(Tail(lines))
         ELSE LET trimmed == Trim(line.text) IN
              IF trimmed # <<>> /\ Head(trimmed) # "/"
              THEN <<Cat(trimmed)>> \o ScanLinesNoBreak(Tail(lines))
              ELSE ScanLinesNoBreak(Tail(lines))

\* build.rs 152-164: the loop over the lines after the first
RECURSIVE ScanLines(_)
ScanLines(lines) ==
    IF lines = <<>> THEN <<>>
    ELSE LET line == Head(lines) IN
         IF ~line.ok THEN ScanLines(Tail(lines))
         ELSE LET trimmed == Trim(line.text) IN
              IF trimmed # <<>> /\ Head(trimmed) = "/" THEN <<>>
              ELSE IF trimmed # <<>>
                   THEN <<Cat(trimmed)>> \o ScanLines(Tail(lines))
                   ELSE ScanLines(Tail(lines))

\* build.rs 145-167
get_dep_modules(ast_file) ==
    IF IsSome(ast_file) /\ Unwrap(ast_file) # <<>>
    THEN ScanLines(Tail(Unwrap(ast_file)))
    ELSE <<>>

\* build.rs 64-73: the output path of the front-end
generate_ast(file_path) ==
    [dir  |-> <<>>,
     base |-> get_basename(file_path),
     ext  |-> IF file_path.ext = "resi" THEN "iast" ELSE "ast"]

\* NormalizeDeps without the removal of the unit's own name
NormalizeDepsKeepSelf(module_name, deps) ==
    Range(deps) \cup {PRELUDE}

\* build.rs 295-300
NormalizeDeps(module_name, deps) ==
    (Range(deps) \cup {PRELUDE}) \ {module_name}

\* build.rs 279-304: the triple one scatter task yields
Extract(module_name, metadata, ast_file) ==
    IF metadata.source_type = "MlMap"
    THEN [module_name |-> module_name,
          ast_path    |-> Unwrap(metadata.ast_path),
          ast_deps    |-> metadata.ast_deps]
    ELSE [module_name |-> module_name,
          ast_path    |-> generate_ast(metadata.file_path),
          ast_deps    |-> NormalizeDeps(module_name, get_dep_modules(ast_file))]

\* MergeTriple that marks the unit it has updated as clean
MergeTripleMarksClean(map, t) ==
    IF t.module_name \in DOMAIN map
    THEN [map EXCEPT ![t.module_name].ast_path = Some(t.ast_path),
                     ![t.module_name].ast_deps = t.ast_deps,
                     ![t.module_name].dirty = FALSE]
    ELSE map

\* MergeTriple that forgets to store the dependency set
MergeTriplePathOnly(map, t) ==
    IF t.module_name \in DOMAIN map
    THEN [map EXCEPT ![t.module_name].ast_path = Some(t.ast_path)]
    ELSE map

\* MergeTriple that keeps only the dependencies on units extracted so far
MergeTripleExtractedOnly(map, t) ==
    IF t.module_name \in DOMAIN map
    THEN [map EXCEPT ![t.module_name].ast_path = Some(t.ast_path),
                     ![t.module_name].ast_deps =
                         {d \in t.ast_deps :
                             d \in DOMAIN map => IsSome(map[d].ast_path)}]
    ELSE map

\* build.rs 308-311: entry(module_name).and_modify
MergeTriple(map, t) ==
    IF t.module_name \in DOMAIN map
    THEN [map EXCEPT ![t.module_name].ast_path = Some(t.ast_path),
                     ![t.module_name].ast_deps = t.ast_deps]
    ELSE map

----------------------------------------------------------------------------
(* The projects the pipeline is run on *)

PkgNames == { <<"f">>, <<"@", "o", "/", "b">> }

Bases == {"A", "OB", "Pervasives"}

Exts == {"res", "resi", "mli", "txt"}

PathsOf(names) == [dir : names, base : Bases, ext : Exts]

RECURSIVE SubsetsUpTo(_, _)
SubsetsUpTo(S, n) ==
    IF n = 0 THEN {{}}
    ELSE LET smaller == SubsetsUpTo(S, n - 1)
         IN  smaller \cup {T \cup {x} : T \in smaller, x \in S}

\* Option<AHashMap<..>>: a package without files has None or an empty map
SourceFilesOf(name, declared) ==
    LET own == {f \in declared : f.dir = name}
    IN  IF own = {} THEN {None, Some({})} ELSE {Some(own)}

Projects ==
    UNION { UNION { { [name \in names |->
                         [name |-> name, namespace |-> ns[name],
                          source_files |-> sf[name]]] :
                      sf \in { g \in [names -> {None} \cup
                                         {Some(T) : T \in SubsetsUpTo(declared, MaxFiles)}] :
                               \A n \in names : g[n] \in SourceFilesOf(n, declared) },
                      ns \in [names -> BOOLEAN] } :
                    declared \in SubsetsUpTo(PathsOf(names), MaxFiles) } :
            names \in SUBSET PkgNames \ {{}} }

EmptyMap == [k \in {} |-> None]

----------------------------------------------------------------------------
(* parse_and_get_dependencies *)

Init ==
    /\ packages \in Projects
    /\ files = EmptyMap
    /\ pc = "discover"
    /\ todoPkgs = DOMAIN packages
    /\ todoFiles = {}
    /\ task = EmptyMap
    /\ artifact = EmptyMap
    /\ results = {}
    /\ pending = {}
    /\ spawned = {}
    /\ writes = EmptyMap
    /\ discovered = EmptyMap
    /\ frontend = EmptyMap
    /\ printed = {}
    /\ call = None
    /\ cmd = <<>>

\* build.rs 205-237: the outer for_each reaches a package; a namespaced
\* package gets its alias unit
BeginPackage(p) ==
    /\ pc = "discover"
    /\ todoFiles = {}
    /\ p \in todoPkgs
    /\ LET package   == packages[p]
           namespace == get_namespace(package)
           mlmap     == gen_mlmap(package, Unwrap(namespace))
           key       == file_path_to_module_name(mlmap)
       IN  /\ files' = IF IsSome(namespace)
                       THEN Insert(files, key, MlMapUnit(package, mlmap))
                       ELSE files
           /\ writes' = IF IsSome(namespace) THEN Insert(writes, key, 1) ELSE writes
           /\ todoFiles' = IF IsSome(package.source_files)
                           THEN Unwrap(package.source_files)
                           ELSE {}
    /\ todoPkgs' = todoPkgs \ {p}
    /\ UNCHANGED <<packages, pc, task, artifact, results, pending, spawned, discovered>>
    /\ UNCHANGED <<frontend, printed>>
    /\ UNCHANGED adapterVars

\* InsertSource that registers implementation files only
InsertSourceImplementationOnly(file) ==
    /\ pc = "discover"
    /\ file \in todoFiles
    /\ IF ~KnownExt(file.ext)
       THEN /\ pc' = "aborted"
            /\ UNCHANGED <<files, writes, todoFiles>>
       ELSE /\ IF file.ext \in ImplementationExts
               THEN /\ files' = Insert(files, file_path_to_module_name(file),
                                       SourceUnit(packages[file.dir], file))
                    /\ writes' = Insert(writes, file_path_to_module_name(file), 0)
               ELSE UNCHANGED <<files, writes>>
            /\ todoFiles' = todoFiles \ {file}
            /\ pc' = pc
    /\ UNCHANGED <<packages, todoPkgs, task, artifact, results, pending, spawned,
                   discovered>>
    /\ UNCHANGED <<frontend, printed>>
    /\ UNCHANGED adapterVars

\* build.rs 240-272: one source file of the current package; an extension
\* that is neither implementation nor interface panics before the insert
InsertSource(file) ==
    /\ pc = "discover"
    /\ file \in todoFiles
    /\ IF KnownExt(file.ext)
       THEN /\ files' = Insert(files, file_path_to_module_name(file),
                               SourceUnit(packages[file.dir], file))
            /\ writes' = Insert(writes, file_path_to_module_name(file), 0)
            /\ todoFiles' = todoFiles \ {file}
            /\ pc' = pc
       ELSE /\ pc' = "aborted"
            /\ UNCHANGED <<files, writes, todoFiles>>
    /\ UNCHANGED <<packages, todoPkgs, task, artifact, results, pending, spawned,
                   discovered>>
    /\ UNCHANGED <<frontend, printed>>
    /\ UNCHANGED adapterVars

\* build.rs 276-277: discovery is over, par_iter hands every entry to a worker
StartScatter ==
    /\ pc = "discover"
    /\ todoPkgs = {}
    /\ todoFiles = {}
    /\ pc' = "scatter"
    /\ task' = [m \in DOMAIN files |-> "idle"]
    /\ discovered' = files
    /\ UNCHANGED <<packages, files, todoPkgs, todoFiles, artifact, results, pending,
                   spawned, writes>>
    /\ UNCHANGED <<frontend, printed>>
    /\ UNCHANGED adapterVars

\* build.rs 280-284: an alias unit yields the values it was registered with
MlMapTask(m) ==
    /\ pc = "scatter"
    /\ m \in DOMAIN task
    /\ task[m] = "idle"
    /\ files[m].source_type = "MlMap"
    /\ results' = results \cup {Extract(m, files[m], None)}
    /\ task' = [task EXCEPT ![m] = "done"]
    /\ UNCHANGED <<packages, files, pc, todoPkgs, todoFiles, artifact, pending,
                   spawned, writes, discovered>>
    /\ UNCHANGED <<frontend, printed>>
    /\ UNCHANGED adapterVars

\* build.rs 286, 112-116: a worker starts the front-end for a source unit
StartExtract(m) ==
    /\ pc = "scatter"
    /\ m \in DOMAIN task
    /\ task[m] = "idle"
    /\ files[m].source_type # "MlMap"
    /\ task' = [task EXCEPT ![m] = "running"]
    /\ spawned' = spawned \cup {m}
    /\ UNCHANGED <<packages, files, pc, todoPkgs, todoFiles, artifact, results,
                   pending, writes, discovered>>
    /\ UNCHANGED <<frontend, printed>>
    /\ UNCHANGED adapterVars

\* SpawnFails in which the worker gives up on the unit and yields its path
\* with the prelude alone
SpawnFailsIgnored(m) ==
    /\ pc = "scatter"
    /\ m \in DOMAIN task
    /\ task[m] = "idle"
    /\ files[m].source_type # "MlMap"
    /\ frontend' = Insert(frontend, m, NotSpawned)
    /\ results' = results \cup {Extract(m, files[m], None)}
    /\ task' = [task EXCEPT ![m] = "done"]
    /\ UNCHANGED <<packages, files, pc, todoPkgs, todoFiles, artifact,
                   pending, spawned, writes, discovered>>
    /\ UNCHANGED printed
    /\ UNCHANGED adapterVars

\* build.rs 117: the front-end cannot be spawned, expect() panics; the panic
\* unwinds to the caller, and the tasks still running never touch the registry
SpawnFails(m) ==
    /\ pc = "scatter"
    /\ m \in DOMAIN task
    /\ task[m] = "idle"
    /\ files[m].source_type # "MlMap"
    /\ frontend' = Insert(frontend, m, NotSpawned)
    /\ pc' = "aborted"
    /\ UNCHANGED <<packages, files, todoPkgs, todoFiles, task, artifact, results,
                   pending, spawned, writes, discovered>>
    /\ UNCHANGED printed
    /\ UNCHANGED adapterVars

\* FinishExtract in which a worker that finds no artifact file yields nothing
FinishExtractSkipMissing(m, run) ==
    /\ pc = "scatter"
    /\ m \in DOMAIN task
    /\ task[m] = "running"
    /\ frontend' = Insert(frontend, m, Ended(run))
    /\ IF IsSome(run.stderr)
       THEN /\ printed' = IF contains_ascii_characters(Unwrap(run.stderr))
                          THEN printed \cup {[unit |-> m, text |-> Cat(Unwrap(run.stderr))]}
                          ELSE printed
            /\ artifact' = Insert(artifact, m, run.ast_file)
            /\ results' = IF IsSome(run.ast_file)
                          THEN results \cup {Extract(m, files[m], run.ast_file)}
                          ELSE results
            /\ task' = [task EXCEPT ![m] = "done"]
            /\ pc' = pc
       ELSE /\ pc' = "aborted"
            /\ UNCHANGED <<printed, artifact, results, task>>
    /\ UNCHANGED <<packages, files, todoPkgs, todoFiles, pending, spawned,
                   writes, discovered>>
    /\ UNCHANGED adapterVars

\* FinishExtract in which the worker stores its triple in the registry itself
FinishExtractInPlace(m, run) ==
    /\ pc = "scatter"
    /\ m \in DOMAIN task
    /\ task[m] = "running"
    /\ frontend' = Insert(frontend, m, Ended(run))
    /\ IF IsSome(run.stderr)
       THEN /\ printed' = IF contains_ascii_characters(Unwrap(run.stderr))
                          THEN printed \cup {[unit |-> m, text |-> Cat(Unwrap(run.stderr))]}
                          ELSE printed
            /\ artifact' = Insert(artifact, m, run.ast_file)
            /\ results' = results \cup {Extract(m, files[m], run.ast_file)}
            /\ files' = MergeTriple(files, Extract(m, files[m], run.ast_file))
            /\ task' = [task EXCEPT ![m] = "done"]
            /\ pc' = pc
       ELSE /\ pc' = "aborted"
            /\ UNCHANGED <<printed, artifact, results, task, files>>
    /\ UNCHANGED <<packages, todoPkgs, todoFiles, pending, spawned,
                   writes, discovered>>
    /\ UNCHANGED adapterVars

\* build.rs 117-123, 293-302: the front-end has ended; its standard error is
\* decoded (expect() panics on bytes that are not UTF-8) and printed when it
\* holds an alphanumeric character; the exit status is not looked at; the
\* worker then reads the artifact file and yields the unit's triple
FinishExtract(m, run) ==
    /\ pc = "scatter"
    /\ m \in DOMAIN task
    /\ task[m] = "running"
    /\ frontend' = Insert(frontend, m, Ended(run))
    /\ IF IsSome(run.stderr)
       THEN /\ printed' = IF contains_ascii_characters(Unwrap(run.stderr))
                          THEN printed \cup {[unit |-> m, text |-> Cat(Unwrap(run.stderr))]}
                          ELSE printed
            /\ artifact' = Insert(artifact, m, run.ast_file)
            /\ results' = results \cup {Extract(m, files[m], run.ast_file)}
            /\ task' = [task EXCEPT ![m] = "done"]
            /\ pc' = pc
       ELSE /\ pc' = "aborted"
            /\ UNCHANGED <<printed, artifact, results, task>>
    /\ UNCHANGED <<packages, files, todoPkgs, todoFiles, pending, spawned,
                   writes, discovered>>
    /\ UNCHANGED adapterVars

\* build.rs 305: collect() returns once every task has yielded
Collect ==
    /\ pc = "scatter"
    /\ \A m \in DOMAIN task : task[m] = "done"
    /\ pc' = "gather"
    /\ pending' = results
    /\ UNCHANGED <<packages, files, todoPkgs, todoFiles, task, artifact, results,
                   spawned, writes, discovered>>
    /\ UNCHANGED <<frontend, printed>>
    /\ UNCHANGED adapterVars

\* build.rs 306-312: the fold takes the next triple of the collected vector
Merge(t) ==
    /\ pc = "gather"
    /\ t \in pending
    /\ files' = MergeTriple(files, t)
    /\ writes' = [writes EXCEPT ![t.module_name] = @ + 1]
    /\ pending' = pending \ {t}
    /\ UNCHANGED <<packages, pc, todoPkgs, todoFiles, task, artifact, results,
                   spawned, discovered>>
    /\ UNCHANGED <<frontend, printed>>
    /\ UNCHANGED adapterVars

\* build.rs 306-312: the whole fold, over the collected vector in its order
RECURSIVE GatherSeq(_, _)
GatherSeq(map, triples) ==
    IF triples = <<>> THEN map
    ELSE GatherSeq(MergeTriple(map, Head(triples)), Tail(triples))

\* build.rs 314
Return ==
    /\ pc = "gather"
    /\ pending = {}
    /\ pc' = "done"
    /\ UNCHANGED <<packages, files, todoPkgs, todoFiles, task, artifact, results,
                   pending, spawned, writes, discovered>>
    /\ UNCHANGED <<frontend, printed>>
    /\ UNCHANGED adapterVars

Next ==
    \/ \E p \in DOMAIN packages : BeginPackage(p)
    \/ \E file \in todoFiles : InsertSource(file)
    \/ StartScatter
    \/ \E m \in DOMAIN task : MlMapTask(m)
    \/ \E m \in DOMAIN task : StartExtract(m)
    \/ \E m \in DOMAIN task : SpawnFails(m)
    \/ \E m \in {k \in DOMAIN task : task[k] = "running"} :
          \E run \in FrontEndRuns : FinishExtract(m, run)
    \/ Collect
    \/ \E t \in pending : Merge(t)
    \/ Return

Spec == Init /\ [][Next]_vars

----------------------------------------------------------------------------
(* The extractor on its own: one source unit, every artifact content *)

OneFileProjects ==
    { [name \in {<<"f">>} |->
         [name |-> <<"f">>, namespace |-> FALSE,
          source_files |-> Some({[dir |-> <<"f">>, base |-> base, ext |-> "res"]})]] :
      base \in Bases }

InitDeps ==
    /\ packages \in OneFileProjects
    /\ files = EmptyMap
    /\ pc = "discover"
    /\ todoPkgs = DOMAIN packages
    /\ todoFiles = {}
    /\ task = EmptyMap
    /\ artifact = EmptyMap
    /\ results = {}
    /\ pending = {}
    /\ spawned = {}
    /\ writes = EmptyMap
    /\ discovered = EmptyMap
    /\ frontend = EmptyMap
    /\ printed = {}
    /\ call = None
    /\ cmd = <<>>

NextDeps ==
    \/ \E p \in DOMAIN packages : BeginPackage(p)
    \/ \E file \in todoFiles : InsertSource(file)
    \/ StartScatter
    \/ \E m \in DOMAIN task : StartExtract(m)
    \/ \E m \in {k \in DOMAIN task : task[k] = "running"} :
          \E a \in Artifacts : FinishExtract(m, CleanRun(a))
    \/ Collect
    \/ \E t \in pending : Merge(t)
    \/ Return

SpecDeps == InitDeps /\ [][NextDeps]_vars

----------------------------------------------------------------------------
(* Vocabulary of the properties *)

\* the source files a package declares
Declared(p) ==
    IF IsSome(packages[p].source_files) THEN Unwrap(packages[p].source_files) ELSE {}

AllDeclared == UNION {Declared(p) : p \in DOMAIN packages}

IsSourceUnit(u) == u.source_type \in {"Interface", "Implementation"}

\* the units of the registry that carry module name n
UnitsNamed(n) ==
    {k \in DOMAIN files : file_path_to_module_name(files[k].file_path) = n}

\* what discovery registers: the alias of each namespaced package and each
\* declared source file, with the module name each is registered under
Origins ==
    {<<"alias", p, Unwrap(get_namespace(packages[p]))>> :
        p \in {q \in DOMAIN packages : packages[q].namespace}}
    \cup {<<"file", f, file_path_to_module_name(f)>> : f \in AllDeclared}

NameCollision == \E x, y \in Origins : x # y /\ x[3] = y[3]

HasUnknownExt == \E f \in AllDeclared : ~(f.ext \in ImplementationExts \cup InterfaceExts)

----------------------------------------------------------------------------
(* C1 *)

\* C1 as stated: when parse_and_get_dependencies has returned, the
\* dependency set of every Interface or Implementation unit, whatever its
\* module name, lacks the unit's own name and holds the prelude module.
C1_Original ==
    pc = "done" =>
        \A m \in DOMAIN files :
            IsSourceUnit(files[m]) =>
                /\ m \notin files[m].ast_deps
                /\ PRELUDE \in files[m].ast_deps

\* C1 amended: when parse_and_get_dependencies has returned, the dependency
\* set of every Interface or Implementation unit lacks the unit's own name,
\* and holds the prelude module unless the unit itself is named like the
\* prelude (the own name is removed after the prelude is inserted).
C1_SelfFreeAndPrelude ==
    pc = "done" =>
        \A m \in DOMAIN files :
            IsSourceUnit(files[m]) =>
                /\ m \notin files[m].ast_deps
                /\ (m # PRELUDE => PRELUDE \in files[m].ast_deps)
                /\ (m = PRELUDE => PRELUDE \notin files[m].ast_deps)

\* a returned registry with a unit whose artifact listed the unit itself
C1_Witness ==
    /\ pc = "done"
    /\ \E m \in DOMAIN files :
        /\ IsSourceUnit(files[m])
        /\ IsSome(artifact[m])
        /\ m \in Range(get_dep_modules(artifact[m]))
        /\ files[m].ast_deps = {"OB", PRELUDE}

----------------------------------------------------------------------------
(* C2 *)

\* C2 as stated: in the final registry every namespaced package has an alias
\* (MlMap) unit whose dependency set is exactly the set of module names of
\* the package's source files.
C2_Original ==
    pc = "done" =>
        \A p \in DOMAIN packages :
            packages[p].namespace =>
                \E m \in DOMAIN files :
                    /\ files[m].source_type = "MlMap"
                    /\ files[m].package = p
                    /\ files[m].ast_deps =
                           {file_path_to_module_name(f) : f \in Declared(p)}

----------------------------------------------------------------------------
(* C3 *)

\* C3: in the final registry every module name resolved for a declared
\* source file is a key of the registry, and exactly one unit of the
\* registry carries that module name.
C3_EveryNameOnce ==
    pc = "done" =>
        \A f \in AllDeclared :
            LET n == file_path_to_module_name(f)
            IN  /\ n \in DOMAIN files
                /\ UnitsNamed(n) = {n}

\* a returned registry of a project in which two declared files share a
\* name, next to a unit of another name
C3_Witness ==
    /\ pc = "done"
    /\ \E f, g \in AllDeclared :
        /\ f # g
        /\ file_path_to_module_name(f) = file_path_to_module_name(g)
    /\ Cardinality(DOMAIN files) >= 2

----------------------------------------------------------------------------
(* C4 *)

\* C4 as stated: when two units resolve to the same module name, the build
\* aborts during discovery: no front-end process is ever started and the
\* pipeline never gets past discovery.
C4_Original ==
    NameCollision =>
        /\ spawned = {}
        /\ pc \in {"discover", "aborted"}

----------------------------------------------------------------------------
(* C5 *)

\* C5 as stated: for a package that declares A.res and A.resi, the final
\* registry holds an Interface unit and an Implementation unit of module A,
\* each with the prelude module among its dependencies.
C5_Original ==
    pc = "done" =>
        \A p \in DOMAIN packages :
            ( /\ [dir |-> p, base |-> "A", ext |-> "res"] \in Declared(p)
              /\ [dir |-> p, base |-> "A", ext |-> "resi"] \in Declared(p) )
            => \E i, j \in UnitsNamed("A") :
                  /\ files[i].source_type = "Interface"
                  /\ files[j].source_type = "Implementation"
                  /\ PRELUDE \in files[i].ast_deps
                  /\ PRELUDE \in files[j].ast_deps

----------------------------------------------------------------------------
(* C6 *)

\* C6: when some declared source file has an extension that is neither an
\* implementation nor an interface extension, the pipeline never gets past
\* discovery: no front-end process is started, no unit of another kind than
\* Interface, Implementation or MlMap is registered, and once the file's
\* package has been visited the file is either still to be inserted or the
\* build has aborted (it is not skipped).
C6_UnknownExtensionAborts ==
    HasUnknownExt =>
        /\ pc \in {"discover", "aborted"}
        /\ spawned = {}
        /\ \A m \in DOMAIN files :
              /\ files[m].source_type \in {"Interface", "Implementation", "MlMap"}
              /\ files[m].file_path.ext \in
                     ImplementationExts \cup InterfaceExts \cup {"mlmap"}
        /\ \A f \in AllDeclared :
              (f.ext \notin ImplementationExts \cup InterfaceExts /\ f.dir \notin todoPkgs)
                  => (f \in todoFiles \/ pc = "aborted")

\* the build aborted on an unknown extension after units had been registered
C6_Witness ==
    /\ pc = "aborted"
    /\ HasUnknownExt
    /\ DOMAIN files # {}
    /\ spawned = {}

----------------------------------------------------------------------------
(* C7 *)

Lines(ast_file) == IF IsSome(ast_file) THEN Unwrap(ast_file) ELSE <<>>

\* line i is text that starts with '/' once trimmed
IsPathLine(lines, i) ==
    /\ lines[i].ok
    /\ Trim(lines[i].text) # <<>>
    /\ Head(Trim(lines[i].text)) = "/"

\* the index of the first path line after the header, or one past the end
FirstPathLine(lines) ==
    LET found == {i \in 2..Len(lines) : IsPathLine(lines, i)}
    IN  IF found = {} THEN Len(lines) + 1
        ELSE CHOOSE i \in found : \A j \in found : i <= j

\* the trimmed non-empty lines after the header and before the first path line
Preamble(lines) ==
    {Cat(Trim(lines[i].text)) :
        i \in {j \in 2..(FirstPathLine(lines) - 1) :
                  lines[j].ok /\ Trim(lines[j].text) # <<>>}}

\* C7 as stated: the dependency set extracted for a unit is the preamble of
\* its artifact plus the prelude module minus the unit's own name, and an
\* artifact whose first line after the header starts with '/' yields exactly
\* the set holding the prelude module alone.
C7_Original ==
    \A t \in results :
        LET m     == t.module_name
            lines == Lines(artifact[m])
        IN  IsSourceUnit(files[m]) =>
                /\ t.ast_deps = (Preamble(lines) \cup {PRELUDE}) \ {m}
                /\ (Len(lines) >= 2 /\ IsPathLine(lines, 2))
                       => t.ast_deps = {PRELUDE}

\* C7 amended: the dependency set extracted for a unit is the preamble of
\* its artifact plus the prelude module minus the unit's own name; an
\* artifact whose first line after the header starts with '/' yields the set
\* holding the prelude module alone, or the empty set when the unit itself
\* is named like the prelude.
C7_ExtractedDeps ==
    \A t \in results :
        LET m     == t.module_name
            lines == Lines(artifact[m])
        IN  IsSourceUnit(files[m]) =>
                /\ t.ast_deps = (Preamble(lines) \cup {PRELUDE}) \ {m}
                /\ (Len(lines) >= 2 /\ IsPathLine(lines, 2))
                       => t.ast_deps = (IF m = PRELUDE THEN {} ELSE {PRELUDE})

\* a triple extracted from an artifact with a dependency line before the
\* path line and another module name after it
C7_Witness ==
    \E t \in results :
        LET m     == t.module_name
            lines == Lines(artifact[m])
        IN  /\ Len(lines) = 4
            /\ FirstPathLine(lines) = 3
            /\ lines[2].ok /\ Cat(Trim(lines[2].text)) \in t.ast_deps
            /\ lines[4].ok /\ Trim(lines[4].text) # <<>>
            /\ Cat(Trim(lines[4].text)) \notin t.ast_deps \cup {m, ""}

----------------------------------------------------------------------------
(* C8 *)

\* the fold has consumed the triple of entry m
Merged(m) ==
    /\ pc \in {"gather", "done"}
    /\ \A t \in pending : t.module_name # m

\* the triple the scatter phase yielded for entry m
TripleOf(m) == CHOOSE t \in results : t.module_name = m

\* C8 as stated: artifact_path and dependencies of a unit are written exactly
\* once (at registration for an alias unit, by its extraction for the
\* others) and never again: no entry is ever written a second time, and when
\* the pipeline has returned every entry has been written once.
C8_Original ==
    \A m \in DOMAIN files :
        /\ writes[m] <= 1
        /\ (pc = "done" => writes[m] = 1)

\* C8 amended: artifact_path and dependencies of an Interface or
\* Implementation unit are unset until the merge step folds the unit's
\* triple, which writes them exactly once, and they keep the triple's values
\* from then on; those of an alias unit are set when the unit is registered
\* and assigned once more by the merge step, which stores the values the
\* unit was registered with.
C8_WrittenOnceByMerge ==
    \A m \in DOMAIN files :
        LET u == files[m] IN
        IF u.source_type = "MlMap"
        THEN /\ writes[m] = (IF Merged(m) THEN 2 ELSE 1)
             /\ u.ast_path = Some(u.file_path)
             /\ u.ast_deps = {file_path_to_module_name(f) : f \in Declared(u.package)}
        ELSE /\ writes[m] = (IF Merged(m) THEN 1 ELSE 0)
             /\ (~Merged(m) => u.ast_path = None /\ u.ast_deps = {})
             /\ (Merged(m) => /\ u.ast_path = Some(TripleOf(m).ast_path)
                              /\ u.ast_deps = TripleOf(m).ast_deps)

\* the pipeline has returned a registry with an alias unit and a source unit
\* whose dependency set holds more than the prelude
C8_Witness ==
    /\ pc = "done"
    /\ \E m \in DOMAIN files : files[m].source_type = "MlMap" /\ writes[m] = 2
    /\ \E m \in DOMAIN files :
          /\ IsSourceUnit(files[m])
          /\ writes[m] = 1
          /\ files[m].ast_deps \ {PRELUDE} # {}

----------------------------------------------------------------------------
(* C9 *)

Running == {m \in DOMAIN task : task[m] = "running"}

\* C9: no step taken while an extraction task is running changes the
\* registry; a step that changes the registry is a step of discovery or of
\* the merge; and the merge begins only when every task has finished.
C9_ScatterReadsOnly ==
    [][ /\ (Running # {} => files' = files)
        /\ (files' # files => pc \in {"discover", "gather"})
        /\ (pc' = "gather" =>
               /\ Running = {}
               /\ \A m \in DOMAIN task' : task'[m] = "done") ]_vars

\* two workers are in their extraction tasks while a third task is over
C9_Witness ==
    /\ pc = "scatter"
    /\ Cardinality(Running) >= 2
    /\ \E m \in DOMAIN task : task[m] = "done"

----------------------------------------------------------------------------
(* C10 *)

RECURSIVE Perms(_)
Perms(S) ==
    IF S = {} THEN {<<>>}
    ELSE UNION {{<<x>> \o order : order \in Perms(S \ {x})} : x \in S}

\* C10: folding the collected triples into the registry that discovery left
\* yields, in every order, the registry the pipeline returns.
C10_MergeAnyOrder ==
    pc = "done" =>
        \A order \in Perms(results) : GatherSeq(discovered, order) = files

\* the pipeline has returned after folding the triples of two source units
\* that name each other and of an alias unit
C10_Witness ==
    /\ pc = "done"
    /\ \E m, n \in DOMAIN files :
          /\ m # n
          /\ IsSourceUnit(files[m]) /\ IsSourceUnit(files[n])
          /\ n \in files[m].ast_deps
          /\ m \in files[n].ast_deps
    /\ \E m \in DOMAIN files : files[m].source_type = "MlMap"

----------------------------------------------------------------------------
(* C11, C12 *)

\* the units whose front-end was spawned and ended with a compile error
CompileErrors ==
    {m \in DOMAIN frontend : frontend[m].spawned /\ frontend[m].status # 0}

\* the units whose front-end could not be spawned
SpawnFailures == {m \in DOMAIN frontend : ~frontend[m].spawned}

\* C11: a compile error of a unit whose front-end was spawned does not halt
\* the scatter phase: the pipeline is aborted only when a spawn has failed.
C11_Original ==
    (CompileErrors # {} /\ pc = "aborted") => SpawnFailures # {}

\* C12: once the front-end of any unit could not be spawned the pipeline is
\* aborted: it neither merges nor returns a registry.
C12_SpawnFailureAborts ==
    SpawnFailures # {} => pc = "aborted"

\* a spawn has failed while another worker had finished its unit and a third
\* was still waiting for its front-end
C12_Witness ==
    /\ SpawnFailures # {}
    /\ pc = "aborted"
    /\ Running # {}
    /\ \E m \in DOMAIN task : task[m] = "done"

----------------------------------------------------------------------------
(* compile_mlmap and compile_file *)

MaxDeps == 2

\* the names a package can declare as its dependencies
DepNames == {"d1", "d2"}

\* bs_dependencies of a package's configuration: absent, or a list of names
DependencyLists == {None} \cup {Some(l) : l \in SeqsUpTo(DepNames, MaxDeps)}

\* the path arguments of a call
PKG_PATH_ABS == <<"p">>

ABS_NODE_MODULES_PATH == "/nm"

\* the source files a unit handed to compile_file can stand for: in the
\* package's root, in a directory below it, and outside of the package
CompileFilePaths ==
    [dir : {<<"p">>, <<"p", "src">>, <<"q">>}, base : {"A"}, ext : {"res", "resi"}]

\* build.rs 64-73: the artifact path as the string the unit stores
AstPathString(path) == path.base \o "." \o path.ext

\* build.rs 20-29: the units handed to compile_file, with the fields of the
\* package that compile_file reads
CompileSources ==
    { [file_path |-> f,
       dirty |-> TRUE,
       source_type |-> SourceTypeOf(f.ext),
       namespace |-> ns,
       ast_path |-> IF extracted THEN Some(AstPathString(generate_ast(f))) ELSE None,
       ast_deps |-> {PRELUDE},
       package |-> [bsconfig |-> [name |-> Cat(n), bs_dependencies |-> d]]] :
        f \in CompileFilePaths,
        ns \in {None, Some("OB")},
        extracted \in BOOLEAN,
        n \in {<<"f">>},
        d \in DependencyLists }

\* what Command::output gives back: that the process could not be spawned, or
\* the exit status and the captured streams of the process that ended (a
\* stream is None when its bytes are not UTF-8)
SpawnError == [spawned |-> FALSE, status |-> 0, stdout |-> None, stderr |-> None]

Output(status, stdout, stderr) ==
    [spawned |-> TRUE, status |-> status, stdout |-> stdout, stderr |-> stderr]

CompilerRuns ==
    { SpawnError,
      Output(0, Some("js"), Some("")),
      Output(1, Some(""), Some("err")),
      Output(1, Some(""), Some("")),
      Output(1, Some(""), None) }

\* Path::strip_prefix on the directories of two paths
strip_prefix(dir, prefix) ==
    IF Len(prefix) <= Len(dir) /\ SubSeq(dir, 1, Len(prefix)) = prefix
    THEN Some(SubSeq(dir, Len(prefix) + 1, Len(dir)))
    ELSE None

\* Path::to_str of a relative directory
RECURSIVE DirString(_)
DirString(dir) ==
    IF dir = <<>> THEN ""
    ELSE IF Len(dir) = 1 THEN Head(dir)
    ELSE Head(dir) \o "/" \o DirString(Tail(dir))

\* Vec<Vec<String>>::concat
RECURSIVE Concat(_)
Concat(vs) == IF vs = <<>> THEN <<>> ELSE Head(vs) \o Concat(Tail(vs))

\* DepsArgs that names every dependency once however often it is declared
DepsArgsOnce(source) ==
    LET declared == IF IsSome(source.package.bsconfig.bs_dependencies)
                    THEN Unwrap(source.package.bsconfig.bs_dependencies)
                    ELSE <<>>
        first == SelectSeq([i \in 1..Len(declared) |-> <<i, declared[i]>>],
                           LAMBDA e : \A j \in 1..(e[1] - 1) : declared[j] # e[2])
    IN  [i \in 1..Len(first) |->
            <<"-I", ABS_NODE_MODULES_PATH \o "/" \o first[i][2] \o "/_build">>]

\* build.rs 349-362
DepsArgs(source) ==
    LET declared == IF IsSome(source.package.bsconfig.bs_dependencies)
                    THEN Unwrap(source.package.bsconfig.bs_dependencies)
                    ELSE <<>>
    IN  [i \in 1..Len(declared) |->
            <<"-I", ABS_NODE_MODULES_PATH \o "/" \o declared[i] \o "/_build">>]

\* build.rs 367-370
NamespaceArgs(source) ==
    IF IsSome(source.namespace) THEN <<"-bs-ns", Unwrap(source.namespace)>> ELSE <<>>

\* build.rs 373-377
ReadCmiArgs(is_interface) == IF is_interface THEN <<"-bs-read-cmi">> ELSE <<>>

\* build.rs 388-390: the source path relative to the package root; unwrap()
\* panics when the path does not lie below it
Relative(source) == strip_prefix(source.file_path.dir, PKG_PATH_ABS)

\* build.rs 378-397
ImplementationArgs(source, is_interface) ==
    IF is_interface THEN <<>>
    ELSE <<"-bs-package-name", source.package.bsconfig.name,
           "-bs-package-output",
           "es6:" \o "./" \o DirString(Unwrap(Relative(source))) \o ":.mjs">>

\* build.rs 399-412
ToMjsArgs(source, is_interface) ==
    Concat(<<NamespaceArgs(source),
             ReadCmiArgs(is_interface),
             <<"-I", ".">>,
             Concat(DepsArgs(source)),
             <<"-warn-error", "A">>,
             ImplementationArgs(source, is_interface),
             <<Unwrap(source.ast_path)>>>>)

\* build.rs 390, 410: the two panics that come before the process is started
PanicsBeforeSpawn(source, is_interface) ==
    \/ ~is_interface /\ ~IsSome(Relative(source))
    \/ ~IsSome(source.ast_path)

BSC == ABS_NODE_MODULES_PATH \o "/rescript/darwinarm64/bsc.exe"

\* a call of Command::output and what it gave back
Command(program, current_dir, args, run) ==
    [program |-> program, current_dir |-> current_dir, args |-> args, run |-> run]

InitCompile ==
    /\ packages = EmptyMap
    /\ files = EmptyMap
    /\ pc = "compile"
    /\ todoPkgs = {}
    /\ todoFiles = {}
    /\ task = EmptyMap
    /\ artifact = EmptyMap
    /\ results = {}
    /\ pending = {}
    /\ spawned = {}
    /\ writes = EmptyMap
    /\ discovered = EmptyMap
    /\ frontend = EmptyMap
    /\ printed = {}
    /\ call = None
    /\ cmd = <<>>

pipelineVars ==
    <<packages, files, todoPkgs, todoFiles, task, artifact, results, pending,
      spawned, writes, discovered, frontend>>

\* build.rs 317-339: the alias compile; expect() panics when the process
\* cannot be spawned, and what the process gave back is dropped unread
compile_mlmap(package, namespace, run) ==
    /\ pc = "compile"
    /\ call = None
    /\ call' = Some([fn |-> "compile_mlmap", package |-> package,
                     namespace |-> namespace])
    /\ cmd' = Append(cmd, Command(BSC, get_build_path(package.name),
                                  <<"-w", "-49", "-color", "always",
                                    "-no-alias-deps", namespace \o ".mlmap">>,
                                  run))
    /\ pc' = IF run.spawned THEN "returned" ELSE "aborted"
    /\ UNCHANGED printed
    /\ UNCHANGED pipelineVars

\* build.rs 428-434: what compile_file prints of the process, up to a panic
\* of expect() on a stream that is not UTF-8
Report(source, run) ==
    LET unit == file_path_to_module_name(source.file_path)
    IN  IF ~run.spawned
        THEN {[unit |-> unit, text |-> "ERROR, " \o Unwrap(source.ast_path)]}
        ELSE IF ~IsSome(run.stdout) THEN {}
        ELSE {[unit |-> unit, text |-> "STDOUT: " \o Unwrap(run.stdout)]}
             \cup IF ~IsSome(run.stderr) THEN {}
                  ELSE {[unit |-> unit, text |-> "STDERR: " \o Unwrap(run.stderr)]}

\* compile_file that starts the compiler before it looks for the artifact path
compile_file_spawn_first(source, is_interface, run) ==
    /\ pc = "compile"
    /\ call = None
    /\ call' = Some([fn |-> "compile_file", source |-> source,
                     is_interface |-> is_interface])
    /\ IF ~is_interface /\ ~IsSome(Relative(source))
       THEN /\ pc' = "aborted"
            /\ UNCHANGED <<cmd, printed>>
       ELSE /\ cmd' = Append(cmd, Command(BSC, DirString(PKG_PATH_ABS) \o "/_build",
                                          IF IsSome(source.ast_path)
                                          THEN ToMjsArgs(source, is_interface)
                                          ELSE <<>>,
                                          run))
            /\ IF IsSome(source.ast_path)
               THEN /\ printed' = printed \cup Report(source, run)
                    /\ pc' = IF run.spawned /\ ~(IsSome(run.stdout) /\ IsSome(run.stderr))
                             THEN "aborted" ELSE "returned"
               ELSE /\ pc' = "aborted"
                    /\ UNCHANGED printed
    /\ UNCHANGED pipelineVars

\* build.rs 341-435: the module compile
compile_file(source, is_interface, run) ==
    /\ pc = "compile"
    /\ call = None
    /\ call' = Some([fn |-> "compile_file", source |-> source,
                     is_interface |-> is_interface])
    /\ IF PanicsBeforeSpawn(source, is_interface)
       THEN /\ pc' = "aborted"
            /\ UNCHANGED <<cmd, printed>>
       ELSE /\ cmd' = Append(cmd, Command(BSC, DirString(PKG_PATH_ABS) \o "/_build",
                                          ToMjsArgs(source, is_interface), run))
            /\ printed' = printed \cup Report(source, run)
            /\ pc' = IF run.spawned /\ ~(IsSome(run.stdout) /\ IsSome(run.stderr))
                     THEN "aborted" ELSE "returned"
    /\ UNCHANGED pipelineVars

\* the packages whose alias artifact compile_mlmap is called for
AliasPackages == {[name |-> n, namespace |-> TRUE] : n \in PkgNames}

NextCompile ==
    \/ \E source \in CompileSources, is_interface \in BOOLEAN, run \in CompilerRuns :
          compile_file(source, is_interface, run)
    \/ \E package \in AliasPackages, run \in CompilerRuns :
          compile_mlmap(package, Unwrap(get_namespace(package)), run)

SpecCompile == InitCompile /\ [][NextCompile]_vars

----------------------------------------------------------------------------
(* C13, C14, C15 *)

\* the processes of the compile adapter that could not be spawned or that
\* ended with a nonzero status
FailedCommands ==
    {i \in 1..Len(cmd) : ~cmd[i].run.spawned \/ cmd[i].run.status # 0}

\* the units whose front-end could not be spawned or ended with a nonzero status
FailedFrontEnds ==
    {m \in DOMAIN frontend : ~frontend[m].spawned \/ frontend[m].status # 0}

\* C13: whenever a process of the front-end, of the alias compile or of the
\* module compile cannot be spawned or exits with a nonzero status, something
\* is printed about it or the build is aborted.
C13_Original ==
    /\ FailedCommands # {} => (pc = "aborted" \/ printed # {})
    /\ \A m \in FailedFrontEnds :
          pc = "aborted" \/ \E p \in printed : p.unit = m

\* the call at hand is compile_file
IsCompileFile == IsSome(call) /\ Unwrap(call).fn = "compile_file"

\* the dependencies the package of the call's unit declares
DeclaredDeps ==
    LET d == Unwrap(call).source.package.bsconfig.bs_dependencies
    IN  IF IsSome(d) THEN Unwrap(d) ELSE <<>>

\* the number of the places of a vector that hold a value
Count(args, value) == Cardinality({i \in 1..Len(args) : args[i] = value})

\* the place before the first place of each part of the argument vector
AfterNamespace == IF IsSome(Unwrap(call).source.namespace) THEN 2 ELSE 0

AfterReadCmi == AfterNamespace + (IF Unwrap(call).is_interface THEN 1 ELSE 0)

AfterCurrentDir == AfterReadCmi + 2

AfterDeps == AfterCurrentDir + 2 * Len(DeclaredDeps)

AfterWarnError == AfterDeps + 2

AfterImplementation == AfterWarnError + (IF Unwrap(call).is_interface THEN 0 ELSE 4)

\* C14: the argument vector of the compiler that compile_file starts holds, in
\* this order, the namespace pair if the unit has a namespace, the read-cmi
\* flag if an interface is compiled, the include pair of the current
\* directory, one include pair per declared dependency naming its build
\* directory, the warn-error pair, the package name and the output target if
\* an implementation is compiled, and the artifact path as its last element;
\* -I occurs once more than there are declared dependencies.
C14_ArgumentVector ==
    (IsCompileFile /\ cmd # <<>>) =>
        LET source == Unwrap(call).source
            args == cmd[1].args
        IN  /\ Len(args) = AfterImplementation + 1
            /\ IsSome(source.namespace) =>
                  args[1] = "-bs-ns" /\ args[2] = Unwrap(source.namespace)
            /\ ~IsSome(source.namespace) => Count(args, "-bs-ns") = 0
            /\ Unwrap(call).is_interface => args[AfterReadCmi] = "-bs-read-cmi"
            /\ ~Unwrap(call).is_interface => Count(args, "-bs-read-cmi") = 0
            /\ args[AfterReadCmi + 1] = "-I" /\ args[AfterReadCmi + 2] = "."
            /\ \A j \in 1..Len(DeclaredDeps) :
                  /\ args[AfterCurrentDir + 2 * j - 1] = "-I"
                  /\ args[AfterCurrentDir + 2 * j] =
                        ABS_NODE_MODULES_PATH \o "/" \o DeclaredDeps[j] \o "/_build"
            /\ Count(args, "-I") = Len(DeclaredDeps) + 1
            /\ args[AfterDeps + 1] = "-warn-error" /\ args[AfterDeps + 2] = "A"
            /\ ~Unwrap(call).is_interface =>
                  /\ args[AfterWarnError + 1] = "-bs-package-name"
                  /\ args[AfterWarnError + 2] = source.package.bsconfig.name
                  /\ args[AfterWarnError + 3] = "-bs-package-output"
                  /\ args[AfterWarnError + 4] \in
                        {"es6:./:.mjs", "es6:./src:.mjs"}
            /\ Unwrap(call).is_interface =>
                  Count(args, "-bs-package-name") + Count(args, "-bs-package-output") = 0
            /\ args[Len(args)] = Unwrap(source.ast_path)

\* an implementation of a namespaced unit has been compiled whose package
\* declares two dependencies
C14_Witness ==
    /\ IsCompileFile
    /\ cmd # <<>>
    /\ ~Unwrap(call).is_interface
    /\ IsSome(Unwrap(call).source.namespace)
    /\ Len(DeclaredDeps) = 2
    /\ Len(cmd[1].args) = 15

\* C15: compile_file called for a unit that has no artifact path is aborted
\* and has started no compiler process.
C15_NoArtifactNoProcess ==
    (IsCompileFile /\ ~IsSome(Unwrap(call).source.ast_path)) =>
        pc = "aborted" /\ cmd = <<>>

\* compile_file has been called for a unit below the package root that has no
\* artifact path
C15_Witness ==
    /\ IsCompileFile
    /\ ~IsSome(Unwrap(call).source.ast_path)
    /\ IsSome(Relative(Unwrap(call).source))
    /\ pc = "aborted"

----------------------------------------------------------------------------
(* C16 *)

\* C16: in the registry the pipeline returns, the artifact path of every
\* Interface unit is its base name with the extension iast, and that of every
\* Implementation unit is its base name with the extension ast.
C16_Original ==
    pc = "done" =>
        \A m \in DOMAIN files :
            IsSourceUnit(files[m]) =>
                /\ IsSome(files[m].ast_path)
                /\ Unwrap(files[m].ast_path).base = get_basename(files[m].file_path)
                /\ Unwrap(files[m].ast_path).ext =
                      IF files[m].source_type = "Interface" THEN "iast" ELSE "ast"

----------------------------------------------------------------------------
(* C17 *)

\* the name under which the alias unit of a namespaced package is registered
AliasName(p) ==
    file_path_to_module_name(gen_mlmap(packages[p], Unwrap(get_namespace(packages[p]))))

\* C17: in the registry the pipeline returns, every unit of a source file
\* carries the namespace derived from its package's name if the package is
\* namespaced (OB for the package @o/b) and none otherwise, and every
\* namespaced package has an alias unit under the name of its alias artifact.
C17_Original ==
    pc = "done" =>
        /\ \A m \in DOMAIN files :
              IsSourceUnit(files[m]) =>
                  LET package == packages[files[m].package]
                  IN  /\ package.namespace =>
                            /\ files[m].namespace = get_namespace(package)
                            /\ package.name = <<"@", "o", "/", "b">> =>
                                  files[m].namespace = Some("OB")
                      /\ ~package.namespace => files[m].namespace = None
        /\ \A p \in DOMAIN packages :
              packages[p].namespace =>
                  /\ AliasName(p) \in DOMAIN files
                  /\ files[AliasName(p)].source_type = "MlMap"
                  /\ files[AliasName(p)].package = p

----------------------------------------------------------------------------
(* C19 *)

\* the source units whose front-end left no artifact file behind
MissingArtifact ==
    {m \in DOMAIN artifact : m \in DOMAIN files /\ ~IsSome(artifact[m])}

\* C19: in the registry the pipeline returns every unit has its artifact
\* path set, however its front-end ended, and a unit whose artifact file is
\* missing depends on the prelude alone, or on nothing if it is the prelude.
C19_PathSetOnReturn ==
    pc = "done" =>
        /\ \A m \in DOMAIN files : IsSome(files[m].ast_path)
        /\ \A m \in MissingArtifact : files[m].ast_deps = {PRELUDE} \ {m}

\* the pipeline has returned after the front-end of one unit had ended with a
\* compile error and left no artifact, and that of another had run cleanly
C19_Witness ==
    /\ pc = "done"
    /\ \E m \in MissingArtifact : m \in CompileErrors /\ m # PRELUDE
    /\ \E m \in DOMAIN frontend : frontend[m].status = 0 /\ IsSome(artifact[m])

----------------------------------------------------------------------------
(* C20 *)

\* C20: from the end of discovery on the registry keeps its module names, and
\* every unit its kind, namespace, source path and package; every unit is
\* dirty, and an alias unit keeps the artifact path and the dependencies it
\* was registered with.
C20_GatherWritesTwoFields ==
    pc \in {"gather", "done"} =>
        /\ DOMAIN files = DOMAIN discovered
        /\ \A m \in DOMAIN files :
              /\ files[m].source_type = discovered[m].source_type
              /\ files[m].namespace = discovered[m].namespace
              /\ files[m].file_path = discovered[m].file_path
              /\ files[m].package = discovered[m].package
              /\ files[m].dirty
              /\ files[m].source_type = "MlMap" =>
                    /\ files[m].ast_path = discovered[m].ast_path
                    /\ files[m].ast_deps = discovered[m].ast_deps

\* the merge has stored the triples of an alias unit and of a source unit
C20_Witness ==
    /\ pc = "done"
    /\ \E m \in DOMAIN files : files[m].source_type = "MlMap"
    /\ \E m \in DOMAIN files :
          /\ IsSourceUnit(files[m])
          /\ files[m].ast_path # discovered[m].ast_path
          /\ files[m].ast_deps # discovered[m].ast_deps

----------------------------------------------------------------------------
(* Front-end processes that may never end *)

\* build.rs 112-117: Command::output waits for the child to exit; a front-end
\* that never exits keeps its worker waiting for ever
Hang(m) ==
    /\ pc = "scatter"
    /\ m \in DOMAIN task
    /\ task[m] = "running"
    /\ task' = [task EXCEPT ![m] = "hung"]
    /\ UNCHANGED <<packages, files, pc, todoPkgs, todoFiles, artifact, results,
                   pending, spawned, writes, discovered>>
    /\ UNCHANGED <<frontend, printed>>
    /\ UNCHANGED adapterVars

NextHang ==
    \/ Next
    \/ \E m \in DOMAIN task : Hang(m)

\* the workers of the pool run every task they are given, the fold and the
\* return follow without waiting for anything, and a front-end that does not
\* hang ends
SpecHang == Init /\ [][NextHang]_vars /\ WF_vars(NextHang)

----------------------------------------------------------------------------
(* C18 *)

\* the units whose front-end never ends
Hung == {m \in DOMAIN task : task[m] = "hung"}

\* every unit of the registry has been extracted and merged
AllExtracted ==
    \A m \in DOMAIN files :
        /\ IsSome(files[m].ast_path)
        /\ IsSourceUnit(files[m]) => m \in DOMAIN frontend

\* C18: while a front-end never ends the scatter phase is not left and the
\* registry stays as discovery left it; and once the scatter phase has begun,
\* unless a front-end hangs or cannot be spawned, the pipeline eventually
\* returns with every unit extracted.
C18_Original ==
    /\ [](Hung # {} => (pc \notin {"gather", "done"} /\ files = discovered))
    /\ (pc = "scatter") ~>
          (Hung # {} \/ SpawnFailures # {} \/ (pc = "done" /\ AllExtracted))

====
